---- MODULE Spec2Model ----
(***************************************************************************)
(* Model of the Spaghetti finite-state-machine engine (spaghetti.hpp).     *)
(*                                                                         *)
(* Build modelled: SPAG_EMBED_ASIO_WRAPPER, SPAG_USE_SIGNALS,              *)
(* SPAG_ENABLE_LOGGING, assertions compiled in (NDEBUG undefined),         *)
(* SPAG_FRIENDLY_CHECKING undefined.                                       *)
(*                                                                         *)
(* The machine (class SpagFSM) is the transition matrix, the allow mask,   *)
(* the state-info table, the current state and the running flag.  The      *)
(* event handler (struct AsioWrapper) is a one-shot timer, a queue of      *)
(* timer expiries that are ready to be dispatched, a count of undelivered  *)
(* signals and the stopped flag of the io_service.  Every action is one    *)
(* call of a public method or one turn of the event loop.  Durations and   *)
(* units are not represented: a timer that is armed may expire at any      *)
(* later turn of the loop.                                                 *)
(***************************************************************************)
EXTENDS Integers, Sequences, FiniteSets, TLC

\* ------------------------------------------------------------------ bounds
NumStates == 3
NumEvents == 1
MaxCfgOps == 2
MaxSteps == 2
MaxReady == 1
MaxSignals == 2
TurnstileSteps == 6
TrafficSteps == 50

States == 0 .. (NumStates - 1)
Events == 0 .. (NumEvents - 1)
NoState == 0 - 1
NDEBUG == FALSE

VARIABLES
    transitionMat,   \* [Events -> [States -> States]]
    allowedMat,      \* [Events -> [States -> BOOLEAN]]
    stateInfo,       \* [States -> StateInfo record]
    ignEventCallback,\* an ignored-events callback is assigned
    current,         \* _current
    isRunning,       \* _isRunning
    stateCounter,    \* RunTimeData::_stateCounter
    eventCounter,    \* RunTimeData::_eventCounter, NumEvents + 2 entries
    ignoredEvents,   \* RunTimeData::_ignoredEvents
    asioTimer,       \* state whose entry armed the pending wait, or NoState
    readyTimeouts,   \* expiries queued for dispatch: the states that armed them
    signals,         \* SIGUSR1 raised and not yet dispatched
    loopStopped,     \* io_service::stop() was called
    terminated,      \* the process has exited
    calls,           \* what the last call did: port calls, callbacks, log rows
    result,          \* outcome of the last call
    lastOp,          \* the last call and its arguments
    nCfg             \* number of configuration calls made since the initial state

cfgVars == <<transitionMat, allowedMat, stateInfo, ignEventCallback>>
rtVars == <<current, isRunning>>
logVars == <<stateCounter, eventCounter, ignoredEvents>>
portVars == <<asioTimer, readyTimeouts, signals, loopStopped>>
vars == <<transitionMat, allowedMat, stateInfo, ignEventCallback, current,
          isRunning, stateCounter, eventCounter, ignoredEvents, asioTimer,
          readyTimeouts, signals, loopStopped, terminated, calls, result,
          lastOp, nCfg>>

\* nbStates(), nbEvents(): the sizes the machine was instantiated with
nbStates == Cardinality(DOMAIN stateInfo)
nbEvents == Cardinality(DOMAIN transitionMat)

\* indexes of the two synthetic events in the event counters: the timeout
\* and the transition out of a pass-state
EvTimeout == nbEvents
EvAAT == nbEvents + 1

\* ------------------------------------------------------------- data model
InnerTransition(ev, st) == [isActive |-> FALSE, destState |-> st, innerEvent |-> ev]

SameInner(a, b) == a.destState = b.destState /\ a.innerEvent = b.innerEvent

TimerEvent(st) == [nextState |-> st, enabled |-> TRUE]

\* the machine is constructed on the sentinel instead of state 0
InitialStateOff == NumStates

\* mutable ST _current = static_cast<ST>(0)
InitialState == 0

NewStateInfo ==
    [timerEvent |-> [nextState |-> 0, enabled |-> FALSE],
     callback |-> FALSE,
     cbActivates |-> {},
     isPassState |-> FALSE,
     ptNextState |-> 0,
     innerTransList |-> <<>>]

Call(op, a, b) == [op |-> op, a |-> a, b |-> b]
Op(name, a, b, c) == [name |-> name, a |-> a, b |-> b, c |-> c]

holdsInnerTransition(stinf, ev, st) ==
    \E i \in 1 .. Len(stinf.innerTransList) :
        SameInner(stinf.innerTransList[i], InnerTransition(ev, st))

\* index of the first inner transition on event ev, 0 when there is none
findInnerEvent(stinf, ev) ==
    LET hits == {i \in 1 .. Len(stinf.innerTransList) :
                    stinf.innerTransList[i].innerEvent = ev}
    IN IF hits = {} THEN 0 ELSE CHOOSE i \in hits : \A j \in hits : i <= j

RemoveAt(seq, i) == SubSeq(seq, 1, i - 1) \o SubSeq(seq, i + 1, Len(seq))

RECURSIVE SumTo(_, _)
SumTo(f, n) == IF n < 0 THEN 0 ELSE f[n] + SumTo(f, n - 1)

Init ==
    /\ transitionMat = [e \in Events |-> [s \in States |-> 0]]
    /\ allowedMat = [e \in Events |-> [s \in States |-> FALSE]]
    /\ stateInfo = [s \in States |-> NewStateInfo]
    /\ ignEventCallback = FALSE
    /\ current = InitialState
    /\ isRunning = FALSE
    /\ stateCounter = [s \in States |-> 0]
    /\ eventCounter = [e \in 0 .. (NumEvents + 1) |-> 0]
    /\ ignoredEvents = [e \in Events |-> 0]
    /\ asioTimer = NoState
    /\ readyTimeouts = <<>>
    /\ signals = 0
    /\ loopStopped = FALSE
    /\ terminated = FALSE
    /\ calls = <<>>
    /\ result = "ok"
    /\ lastOp = Op("construct", 0, 0, 0)
    /\ nCfg = 0

\* ------------------------------------------------------ configuration API
\* what every configuration call leaves alone, and its bookkeeping
CfgCall(op, res, log) ==
    /\ UNCHANGED <<current, isRunning, stateCounter, eventCounter, ignoredEvents,
                   asioTimer, readyTimeouts, signals, loopStopped, terminated>>
    /\ calls' = log
    /\ result' = res
    /\ lastOp' = op
    /\ nCfg' = nCfg + 1

CfgEnabled == ~terminated /\ nCfg < MaxCfgOps

\* the transition is written without looking at the pass-state marker
assignTransitionUnchecked(st1, ev, st2) ==
    /\ CfgEnabled
    /\ transitionMat' = [transitionMat EXCEPT ![ev][st1] = st2]
    /\ allowedMat' = [allowedMat EXCEPT ![ev][st1] = TRUE]
    /\ UNCHANGED <<stateInfo, ignEventCallback>>
    /\ CfgCall(Op("assignTransition", st1, ev, st2), "ok", <<>>)

\* assignTransition( ST st1, EV ev, ST st2 )
assignTransition(st1, ev, st2) ==
    /\ CfgEnabled
    /\ IF stateInfo[st1].isPassState
       THEN /\ UNCHANGED cfgVars
            /\ CfgCall(Op("assignTransition", st1, ev, st2), "cfg_error", <<>>)
       ELSE /\ transitionMat' = [transitionMat EXCEPT ![ev][st1] = st2]
            /\ allowedMat' = [allowedMat EXCEPT ![ev][st1] = TRUE]
            /\ UNCHANGED <<stateInfo, ignEventCallback>>
            /\ CfgCall(Op("assignTransition", st1, ev, st2), "ok", <<>>)

\* the state info of st1 after assignTransition( ST st1, ST st2 ), st1 # st2
PassStateInfo(stinf, st2) ==
    [stinf EXCEPT !.isPassState = TRUE,
                  !.ptNextState = st2,
                  !.innerTransList = <<>>,
                  !.timerEvent.enabled = FALSE]

\* the pass-transition is stored without comparing the two states
assignPassTransitionAny(st1, st2) ==
    /\ CfgEnabled
    /\ stateInfo' = [stateInfo EXCEPT ![st1] = PassStateInfo(stateInfo[st1], st2)]
    /\ UNCHANGED <<transitionMat, allowedMat, ignEventCallback>>
    /\ CfgCall(Op("assignPassTransition", st1, st2, 0), "ok", <<>>)

\* assignTransition( ST st1, ST st2 ): st1 becomes a pass-state
assignPassTransition(st1, st2) ==
    /\ CfgEnabled
    /\ IF st1 = st2
       THEN /\ UNCHANGED cfgVars
            /\ CfgCall(Op("assignPassTransition", st1, st2, 0), "cfg_error", <<>>)
       ELSE /\ stateInfo' = [stateInfo EXCEPT ![st1] = PassStateInfo(stateInfo[st1], st2)]
            /\ UNCHANGED <<transitionMat, allowedMat, ignEventCallback>>
            /\ CfgCall(Op("assignPassTransition", st1, st2, 0), "ok",
                       (IF Len(stateInfo[st1].innerTransList) > 0
                        THEN <<Call("warning", st1, st2)>> ELSE <<>>)
                       \o (IF stateInfo[st1].timerEvent.enabled
                           THEN <<Call("warning", st1, st1)>> ELSE <<>>))

\* the inner transition is listed but the two matrices are left as they were
assignInnerTransitionListOnly(st1, ev, st2) ==
    /\ CfgEnabled
    /\ IF stateInfo[st1].isPassState
       THEN /\ UNCHANGED cfgVars
            /\ CfgCall(Op("assignInnerTransition", st1, ev, st2), "cfg_error", <<>>)
       ELSE /\ stateInfo' = [stateInfo EXCEPT ![st1].innerTransList =
                                Append(@, InnerTransition(ev, st2))]
            /\ UNCHANGED <<transitionMat, allowedMat, ignEventCallback>>
            /\ CfgCall(Op("assignInnerTransition", st1, ev, st2), "ok", <<>>)

\* assignInnerTransition( ST st1, EV ev, ST st2 )
assignInnerTransition(st1, ev, st2) ==
    /\ CfgEnabled
    /\ IF stateInfo[st1].isPassState
       THEN /\ UNCHANGED cfgVars
            /\ CfgCall(Op("assignInnerTransition", st1, ev, st2), "cfg_error", <<>>)
       ELSE /\ stateInfo' = [stateInfo EXCEPT ![st1].innerTransList =
                                Append(@, InnerTransition(ev, st2))]
            /\ transitionMat' = [transitionMat EXCEPT ![ev][st1] = st2]
            /\ allowedMat' = [allowedMat EXCEPT ![ev][st1] = TRUE]
            /\ UNCHANGED ignEventCallback
            /\ CfgCall(Op("assignInnerTransition", st1, ev, st2), "ok", <<>>)

\* the state info of state i after assignInnerTransition( EV ev, ST st )
BroadcastInnerInfo(i, stinf, ev, st) ==
    IF i # st /\ ~holdsInnerTransition(stinf, ev, st)
    THEN [stinf EXCEPT !.innerTransList = Append(@, InnerTransition(ev, st))]
    ELSE stinf

\* assignInnerTransition( EV ev, ST st ): on every state but st
assignInnerTransitionAll(ev, st) ==
    /\ CfgEnabled
    /\ stateInfo' = [i \in States |-> BroadcastInnerInfo(i, stateInfo[i], ev, st)]
    /\ UNCHANGED <<transitionMat, allowedMat, ignEventCallback>>
    /\ CfgCall(Op("assignInnerTransitionAll", ev, st, 0), "ok", <<>>)

\* the timer event of st_curr after assignTimeOut( st_curr, dur, unit, st_next )
TimeOutInfo(stinf, st_next) == [stinf EXCEPT !.timerEvent = TimerEvent(st_next)]

\* assignTimeOut( ST st_curr, Duration dur, DurUnit unit, ST st_next )
assignTimeOut(st_curr, st_next) ==
    /\ CfgEnabled
    /\ stateInfo' = [stateInfo EXCEPT ![st_curr] = TimeOutInfo(stateInfo[st_curr], st_next)]
    /\ UNCHANGED <<transitionMat, allowedMat, ignEventCallback>>
    /\ CfgCall(Op("assignTimeOut", st_curr, st_next, 0), "ok", <<>>)

\* first state other than st_final that already has a timeout, NumStates if none
GlobalTimeOutConflict(st_final) ==
    LET bad == {i \in States : i # st_final /\ stateInfo[i].timerEvent.enabled}
    IN IF bad = {} THEN NumStates ELSE CHOOSE i \in bad : \A j \in bad : i <= j

\* assignGlobalTimeOut( dur, durUnit, st_final ): the loop assigns state after
\* state and throws at the first state that already has a timeout
assignGlobalTimeOut(st_final) ==
    /\ CfgEnabled
    /\ LET k == GlobalTimeOutConflict(st_final)
       IN /\ stateInfo' = [i \in States |->
                             IF i # st_final /\ i < k
                             THEN TimeOutInfo(stateInfo[i], st_final)
                             ELSE stateInfo[i]]
          /\ UNCHANGED <<transitionMat, allowedMat, ignEventCallback>>
          /\ CfgCall(Op("assignGlobalTimeOut", st_final, 0, 0),
                     IF k < NumStates THEN "cfg_error" ELSE "ok", <<>>)

\* clearTimeOuts()
clearTimeOuts ==
    /\ CfgEnabled
    /\ stateInfo' = [i \in States |-> [stateInfo[i] EXCEPT !.timerEvent.enabled = FALSE]]
    /\ UNCHANGED <<transitionMat, allowedMat, ignEventCallback>>
    /\ CfgCall(Op("clearTimeOuts", 0, 0, 0), "ok", <<>>)

\* the timeout is removed without the warning
clearTimeOutSilent(st) ==
    /\ CfgEnabled
    /\ stateInfo' = [stateInfo EXCEPT ![st].timerEvent.enabled = FALSE]
    /\ UNCHANGED <<transitionMat, allowedMat, ignEventCallback>>
    /\ CfgCall(Op("clearTimeOut", st, 0, 0), "ok", <<>>)

\* clearTimeOut( ST st )
clearTimeOut(st) ==
    /\ CfgEnabled
    /\ stateInfo' = [stateInfo EXCEPT ![st].timerEvent.enabled = FALSE]
    /\ UNCHANGED <<transitionMat, allowedMat, ignEventCallback>>
    /\ CfgCall(Op("clearTimeOut", st, 0, 0), "ok",
               IF stateInfo[st].timerEvent.enabled THEN <<>>
               ELSE <<Call("warning", st, st)>>)

\* assignTransition( EV ev, ST st ): whatever the state, ev leads to st
assignTransitionAll(ev, st) ==
    /\ CfgEnabled
    /\ transitionMat' = [transitionMat EXCEPT ![ev] = [s \in States |-> st]]
    /\ allowedMat' = [allowedMat EXCEPT ![ev] = [s \in States |-> TRUE]]
    /\ UNCHANGED <<stateInfo, ignEventCallback>>
    /\ CfgCall(Op("assignTransitionAll", ev, st, 0), "ok", <<>>)

\* allowAllEvents()
allowAllEvents ==
    /\ CfgEnabled
    /\ allowedMat' = [e \in Events |-> [s \in States |-> TRUE]]
    /\ UNCHANGED <<transitionMat, stateInfo, ignEventCallback>>
    /\ CfgCall(Op("allowAllEvents", 0, 0, 0), "ok", <<>>)

\* the event is allowed whatever the flag passed
allowEventAlways(st, ev, what) ==
    /\ CfgEnabled
    /\ allowedMat' = [allowedMat EXCEPT ![ev][st] = TRUE]
    /\ UNCHANGED <<transitionMat, stateInfo, ignEventCallback>>
    /\ CfgCall(Op("allowEvent", st, ev, IF what THEN 1 ELSE 0),
               IF holdsInnerTransition(stateInfo[st], ev, st) THEN "rt_error" ELSE "ok",
               <<>>)

\* allowEvent( ST st, EV ev, bool what ): the mask is written first, the
\* inner-transition test (on the pair (ev, st)) throws afterwards
allowEvent(st, ev, what) ==
    /\ CfgEnabled
    /\ allowedMat' = [allowedMat EXCEPT ![ev][st] = what]
    /\ UNCHANGED <<transitionMat, stateInfo, ignEventCallback>>
    /\ CfgCall(Op("allowEvent", st, ev, IF what THEN 1 ELSE 0),
               IF holdsInnerTransition(stateInfo[st], ev, st) THEN "rt_error" ELSE "ok",
               <<>>)

\* disableInnerTransition( EV ev, ST st_from )
disableInnerTransition(ev, st_from) ==
    /\ CfgEnabled
    /\ LET it == findInnerEvent(stateInfo[st_from], ev)
       IN IF it = 0
          THEN /\ UNCHANGED cfgVars
               /\ CfgCall(Op("disableInnerTransition", ev, st_from, 0), "cfg_error", <<>>)
          ELSE /\ stateInfo' = [stateInfo EXCEPT ![st_from].innerTransList = RemoveAt(@, it)]
               /\ UNCHANGED <<transitionMat, allowedMat, ignEventCallback>>
               /\ CfgCall(Op("disableInnerTransition", ev, st_from, 0), "ok", <<>>)

\* assignCallback( ST st, Callback_t func, CBA cb_arg ), func being a function
\* that leaves the machine alone
assignCallback(st) ==
    /\ CfgEnabled
    /\ stateInfo' = [stateInfo EXCEPT ![st].callback = TRUE, ![st].cbActivates = {}]
    /\ UNCHANGED <<transitionMat, allowedMat, ignEventCallback>>
    /\ CfgCall(Op("assignCallback", st, 0, 0), "ok", <<>>)

\* assignCallback( ST st, Callback_t func, CBA cb_arg ), func being a function
\* that calls activateInnerEvent( ev ) on an event that some state carries as
\* an inner event
assignCallbackActivating(st, ev) ==
    /\ CfgEnabled
    /\ \E s \in States : findInnerEvent(stateInfo[s], ev) # 0
    /\ stateInfo' = [stateInfo EXCEPT ![st].callback = TRUE, ![st].cbActivates = {ev}]
    /\ UNCHANGED <<transitionMat, allowedMat, ignEventCallback>>
    /\ CfgCall(Op("assignCallback", st, ev, 1), "ok", <<>>)

\* assignIgnoredEventsCallback( func )
assignIgnoredEventsCallback ==
    /\ CfgEnabled
    /\ ignEventCallback' = TRUE
    /\ UNCHANGED <<transitionMat, allowedMat, stateInfo>>
    /\ CfgCall(Op("assignIgnoredEventsCallback", 0, 0, 0), "ok", <<>>)

\* assignTransitionMat( mat ): mat has nbEvents() lines of nbStates()
\* values of type ST; only the two sizes are checked
assignTransitionMat(mat) ==
    /\ CfgEnabled
    /\ transitionMat' = mat
    /\ UNCHANGED <<allowedMat, stateInfo, ignEventCallback>>
    /\ CfgCall(Op("assignTransitionMat", 0, 0, 0), "ok", <<>>)

\* the configuration of a second machine of the same sizes, on which
\* assignTransition(st1,ev,st2), assignInnerTransition(st2,ev,st1),
\* assignTimeOut(st2,1,st1) and assignCallback(st2) were called
OtherMachine(st1, ev, st2) ==
    LET tm0 == [e \in Events |-> [s \in States |-> 0]]
        am0 == [e \in Events |-> [s \in States |-> FALSE]]
        tm1 == [tm0 EXCEPT ![ev][st1] = st2]
        am1 == [am0 EXCEPT ![ev][st1] = TRUE]
    IN [transitionMat |-> [tm1 EXCEPT ![ev][st2] = st1],
        allowedMat |-> [am1 EXCEPT ![ev][st2] = TRUE],
        stateInfo |-> [s \in States |->
                          IF s = st2
                          THEN [NewStateInfo EXCEPT
                                  !.innerTransList = <<InnerTransition(ev, st1)>>,
                                  !.timerEvent = TimerEvent(st1),
                                  !.callback = TRUE]
                          ELSE NewStateInfo]]

\* only the two matrices are copied
assignConfigMatrices(st1, ev, st2) ==
    /\ CfgEnabled
    /\ transitionMat' = OtherMachine(st1, ev, st2).transitionMat
    /\ allowedMat' = OtherMachine(st1, ev, st2).allowedMat
    /\ UNCHANGED <<stateInfo, ignEventCallback>>
    /\ CfgCall(Op("assignConfig", st1, ev, st2), "ok", <<>>)

\* assignConfig( fsm ), fsm being OtherMachine(st1, ev, st2)
assignConfig(st1, ev, st2) ==
    /\ CfgEnabled
    /\ transitionMat' = OtherMachine(st1, ev, st2).transitionMat
    /\ allowedMat' = OtherMachine(st1, ev, st2).allowedMat
    /\ stateInfo' = OtherMachine(st1, ev, st2).stateInfo
    /\ UNCHANGED ignEventCallback
    /\ CfgCall(Op("assignConfig", st1, ev, st2), "ok", <<>>)

\* the calls that wire the machine: transitions, deferred transitions,
\* timeouts, the allow mask and the callbacks
Wire ==
    \/ \E st1 \in States, ev \in Events, st2 \in States : assignTransition(st1, ev, st2)
    \/ \E st1 \in States, st2 \in States : assignPassTransition(st1, st2)
    \/ \E st1 \in States, ev \in Events, st2 \in States : assignInnerTransition(st1, ev, st2)
    \/ \E st1 \in States, st2 \in States : assignTimeOut(st1, st2)
    \/ \E st \in States, ev \in Events, what \in BOOLEAN : allowEvent(st, ev, what)
    \/ \E st \in States : assignCallback(st)
    \/ assignIgnoredEventsCallback

\* the broadcast calls and the calls that remove something
Rewire ==
    \/ \E ev \in Events, st \in States : assignInnerTransitionAll(ev, st)
    \/ \E st \in States : assignGlobalTimeOut(st)
    \/ clearTimeOuts
    \/ \E st \in States : clearTimeOut(st)
    \/ \E ev \in Events, st \in States : assignTransitionAll(ev, st)
    \/ allowAllEvents
    \/ \E ev \in Events, st \in States : disableInnerTransition(ev, st)

Configure == Wire \/ Rewire

\* ------------------------------------------------------------ run time
\* number of rows written to the history so far plus ignored events
Logged == SumTo(eventCounter, nbEvents + 1) + SumTo(ignoredEvents, nbEvents - 1)

LogEnabled == Logged < MaxSteps

LoopRunning == isRunning /\ ~loopStopped /\ ~terminated

\* RunTimeData::logTransition( st, ev_idx )
logTransitionEvents(ev_idx) == [eventCounter EXCEPT ![ev_idx] = @ + 1]

logTransitionStates(st) == [stateCounter EXCEPT ![st] = @ + 1]

\* RunTimeData::incrementInitState()
incrementInitState == [stateCounter EXCEPT ![0] = 1]

\* the ignored event is not counted
logIgnoredEventLost(ev_idx) == ignoredEvents

\* RunTimeData::logIgnoredEvent( ev_idx )
logIgnoredEvent(ev_idx) == [ignoredEvents EXCEPT ![ev_idx] = @ + 1]

\* third step of runAction: a deferred transition is pending on this state
DoRaiseSig(stinf) ==
    \/ stinf.isPassState
    \/ \E i \in 1 .. Len(stinf.innerTransList) : stinf.innerTransList[i].isActive

\* no wait is started: the timer stays as it was
timerStartSkipped(cur, tmr) == tmr

\* AsioWrapper::timerStart: the pending wait, if any, is replaced
timerStart(cur, tmr) == cur

\* the pending wait survives the cancel
timerCancelKeeps(tmr) == tmr

\* AsioWrapper::timerCancel: cancel_one() removes the pending wait; an expiry
\* already queued for dispatch is out of its reach
timerCancel(tmr) == NoState

\* every inner transition is activated, whatever its event
ActivateInfoAll(stinf, ev) ==
    [stinf EXCEPT !.innerTransList =
        [i \in 1 .. Len(stinf.innerTransList) |->
            [stinf.innerTransList[i] EXCEPT !.isActive = TRUE]]]

\* the state info of one state after activateInnerEvent( ev )
ActivateInfo(stinf, ev) ==
    [stinf EXCEPT !.innerTransList =
        [i \in 1 .. Len(stinf.innerTransList) |->
            IF stinf.innerTransList[i].innerEvent = ev
            THEN [stinf.innerTransList[i] EXCEPT !.isActive = TRUE]
            ELSE stinf.innerTransList[i]]]

\* the table once the callback of state cur has returned: the inner events
\* that the callback passes to activateInnerEvent are active on every state
AfterCallback(info, cur) ==
    IF info[cur].callback /\ info[cur].cbActivates # {}
    THEN [s \in DOMAIN info |->
            [info[s] EXCEPT !.innerTransList =
                [i \in 1 .. Len(info[s].innerTransList) |->
                    IF info[s].innerTransList[i].innerEvent \in info[cur].cbActivates
                    THEN [info[s].innerTransList[i] EXCEPT !.isActive = TRUE]
                    ELSE info[s].innerTransList[i]]]]
    ELSE info

\* the callback is invoked before the timer is armed
runActionCallbackFirst(info, cur, tmr, sig) ==
    LET stinf == info[cur]
        t1 == IF stinf.timerEvent.enabled THEN timerStart(cur, tmr) ELSE tmr
        c1 == IF stinf.timerEvent.enabled THEN <<Call("timerStart", cur, 0)>> ELSE <<>>
        c2 == IF stinf.callback THEN <<Call("callback", cur, 0)>> ELSE <<>>
        raise == DoRaiseSig(stinf)
    IN [timer |-> IF raise THEN timerCancel(t1) ELSE t1,
        signals |-> IF raise THEN sig + 1 ELSE sig,
        raised |-> raise,
        table |-> AfterCallback(info, cur),
        calls |-> c2 \o c1 \o (IF raise
                               THEN <<Call("raiseSignal", cur, 0), Call("timerCancel", cur, 0)>>
                               ELSE <<>>)]

\* runAction() on state cur with the table info, pending wait tmr and sig
\* undelivered signals: timer, then callback, then signal and cancel; the
\* signal is decided on stinf, the copy of the state info taken on entry
runAction(info, cur, tmr, sig) ==
    LET stinf == info[cur]
        t1 == IF stinf.timerEvent.enabled THEN timerStart(cur, tmr) ELSE tmr
        c1 == IF stinf.timerEvent.enabled THEN <<Call("timerStart", cur, 0)>> ELSE <<>>
        c2 == IF stinf.callback THEN <<Call("callback", cur, 0)>> ELSE <<>>
        raise == DoRaiseSig(stinf)
    IN [timer |-> IF raise THEN timerCancel(t1) ELSE t1,
        signals |-> IF raise THEN sig + 1 ELSE sig,
        raised |-> raise,
        table |-> AfterCallback(info, cur),
        calls |-> c1 \o c2 \o (IF raise
                               THEN <<Call("raiseSignal", cur, 0), Call("timerCancel", cur, 0)>>
                               ELSE <<>>)]

\* the process exits: SPAG_P_ASSERT or assert failed, or SIGUSR1 was raised
\* after timerKill() removed the signal registration
Exit(op, log) ==
    /\ terminated' = TRUE
    /\ result' = "exit"
    /\ calls' = log
    /\ lastOp' = op
    /\ UNCHANGED <<transitionMat, allowedMat, stateInfo, ignEventCallback, current,
                   isRunning, stateCounter, eventCounter, ignoredEvents, asioTimer,
                   readyTimeouts, signals, loopStopped, nCfg>>

\* a transition of st to itself counts as reaching st
isReachableFromAny(st) ==
    \E i \in 0 .. (nbStates - 1) :
        \/ \E k \in 0 .. (nbEvents - 1) : transitionMat[k][i] = st /\ allowedMat[k][i]
        \/ stateInfo[i].timerEvent.enabled /\ stateInfo[i].timerEvent.nextState = st
        \/ stateInfo[i].isPassState /\ stateInfo[i].ptNextState = st
        \/ \E n \in 1 .. Len(stateInfo[i].innerTransList) :
              stateInfo[i].innerTransList[n].destState = st

\* isReachable( st ): some other state has an allowed external transition,
\* an enabled timeout, a pass-state transition or an inner transition to st
isReachable(st) ==
    \E i \in 0 .. (nbStates - 1) :
        /\ i # st
        /\ \/ \E k \in 0 .. (nbEvents - 1) : transitionMat[k][i] = st /\ allowedMat[k][i]
           \/ stateInfo[i].timerEvent.enabled /\ stateInfo[i].timerEvent.nextState = st
           \/ stateInfo[i].isPassState /\ stateInfo[i].ptNextState = st
           \/ \E n \in 1 .. Len(stateInfo[i].innerTransList) :
                 stateInfo[i].innerTransList[n].destState = st

\* doChecking(): the list of unreachable states, state 0 never tested
unreachableStates == {i \in 1 .. (nbStates - 1) : ~isReachable(i)}

\* doChecking(): state i has a timeout, is a pass-state, or has an allowed
\* external transition to another state
foundValid(i) ==
    \/ stateInfo[i].timerEvent.enabled
    \/ stateInfo[i].isPassState
    \/ \E j \in 0 .. (nbEvents - 1) : transitionMat[j][i] # i /\ allowedMat[j][i]

\* unreachable states are reported as dead-ends too
deadEndStatesAll == {i \in 0 .. (nbStates - 1) : ~foundValid(i)}

\* doChecking(): the states reported as dead-ends
deadEndStates == {i \in 0 .. (nbStates - 1) : ~foundValid(i) /\ i \notin unreachableStates}

\* one warning line per state of S, by increasing state index from i on
RECURSIVE Warnings(_, _, _)
Warnings(what, S, i) ==
    IF i >= nbStates
    THEN <<>>
    ELSE (IF i \in S THEN <<Call(what, i, 0)>> ELSE <<>>) \o Warnings(what, S, i + 1)

\* doChecking(): no fatal check is compiled in; the warnings it prints
doChecking == Warnings("unreachable", unreachableStates, 0) \o Warnings("dead-end", deadEndStates, 0)

\* start(): doChecking(), _isRunning = true, incrementInitState(),
\* runAction(), then init() on the event handler
start ==
    /\ ~terminated
    /\ IF isRunning /\ ~NDEBUG
       THEN Exit(Op("start", 0, 0, 0), <<>>)
       ELSE LET ra == runAction(stateInfo, current, asioTimer, signals)
            IN /\ ra.signals <= MaxSignals
               /\ isRunning' = TRUE
               /\ stateCounter' = incrementInitState
               /\ asioTimer' = ra.timer
               /\ signals' = IF ra.raised /\ loopStopped THEN signals ELSE ra.signals
               /\ terminated' = (ra.raised /\ loopStopped)
               /\ calls' = doChecking \o ra.calls
               /\ result' = IF ra.raised /\ loopStopped THEN "exit" ELSE "ok"
               /\ lastOp' = Op("start", 0, 0, 0)
               /\ stateInfo' = ra.table
               /\ UNCHANGED <<transitionMat, allowedMat, ignEventCallback,
                              current, eventCounter, ignoredEvents, readyTimeouts,
                              loopStopped, nCfg>>

\* stop(): timerCancel() then timerKill()
stop ==
    /\ ~terminated
    /\ IF ~isRunning /\ ~NDEBUG
       THEN Exit(Op("stop", 0, 0, 0), <<>>)
       ELSE /\ isRunning' = FALSE
            /\ asioTimer' = timerCancel(asioTimer)
            /\ signals' = 0
            /\ loopStopped' = TRUE
            /\ calls' = <<Call("timerCancel", current, 0), Call("timerKill", current, 0)>>
            /\ result' = "ok"
            /\ lastOp' = Op("stop", 0, 0, 0)
            /\ UNCHANGED <<transitionMat, allowedMat, stateInfo, ignEventCallback,
                           current, stateCounter, eventCounter, ignoredEvents,
                           readyTimeouts, terminated, nCfg>>

\* what a handler that moved the machine to state nxt and logged ev_idx leaves
\* behind, after its runAction(); info is the table runAction() reads
Enter(op, info, nxt, ev_idx, tmr, sig, pre) ==
    LET ra == runAction(info, nxt, tmr, sig)
    IN /\ ra.signals <= MaxSignals
       /\ stateInfo' = ra.table
       /\ current' = nxt
       /\ eventCounter' = logTransitionEvents(ev_idx)
       /\ stateCounter' = logTransitionStates(nxt)
       /\ asioTimer' = ra.timer
       /\ signals' = IF ra.raised /\ loopStopped THEN sig ELSE ra.signals
       /\ terminated' = (ra.raised /\ loopStopped)
       /\ calls' = pre \o <<Call("log", nxt, ev_idx)>> \o ra.calls
       /\ result' = IF ra.raised /\ loopStopped THEN "exit" ELSE "ok"
       /\ lastOp' = op

\* the matrix is read in the column of state 0 instead of the current state
EventNextColumn0(ev, cur) == transitionMat[ev][0]

\* next state of an allowed external event
EventNext(ev, cur) == transitionMat[ev][cur]

\* processEvent( EV ev ), as long as the history holds less than maxLogged rows
processEventUpTo(ev, maxLogged) ==
    /\ ~terminated
    /\ IF ~isRunning /\ ~NDEBUG
       THEN Exit(Op("processEvent", ev, current, 0), <<>>)
       ELSE /\ Logged < maxLogged
            /\ IF allowedMat[ev][current]
               THEN /\ Enter(Op("processEvent", ev, current, 0), stateInfo,
                             EventNext(ev, current), ev,
                             IF stateInfo[current].timerEvent.enabled
                             THEN timerCancel(asioTimer) ELSE asioTimer,
                             signals,
                             IF stateInfo[current].timerEvent.enabled
                             THEN <<Call("timerCancel", current, 0)>> ELSE <<>>)
                    /\ UNCHANGED <<transitionMat, allowedMat, ignEventCallback,
                                   isRunning, ignoredEvents, readyTimeouts, loopStopped, nCfg>>
               ELSE /\ ignoredEvents' = logIgnoredEvent(ev)
                    /\ calls' = IF ignEventCallback
                                THEN <<Call("ignEventCallback", current, ev)>> ELSE <<>>
                    /\ result' = "ok"
                    /\ lastOp' = Op("processEvent", ev, current, 0)
                    /\ UNCHANGED <<transitionMat, allowedMat, stateInfo, ignEventCallback,
                                   current, isRunning, stateCounter, eventCounter,
                                   asioTimer, readyTimeouts, signals, loopStopped,
                                   terminated, nCfg>>

\* processEvent( EV ev )
processEvent(ev) == processEventUpTo(ev, MaxSteps)

\* activateInnerEvent( EV ev )
activateInnerEvent(ev) ==
    /\ ~terminated
    /\ stateInfo' = [s \in States |-> ActivateInfo(stateInfo[s], ev)]
    /\ result' = IF \E s \in States : findInnerEvent(stateInfo[s], ev) # 0
                 THEN "ok" ELSE "rt_error"
    /\ calls' = <<>>
    /\ lastOp' = Op("activateInnerEvent", ev, current, 0)
    /\ UNCHANGED <<transitionMat, allowedMat, ignEventCallback, current, isRunning,
                   stateCounter, eventCounter, ignoredEvents, asioTimer, readyTimeouts,
                   signals, loopStopped, terminated, nCfg>>

\* the armed timer reaches its expiry time: the reactor queues the wait
\* handler with a success code
timerExpire ==
    /\ LoopRunning
    /\ asioTimer # NoState
    /\ Len(readyTimeouts) < MaxReady
    /\ readyTimeouts' = Append(readyTimeouts, asioTimer)
    /\ asioTimer' = NoState
    /\ calls' = <<>>
    /\ result' = "ok"
    /\ lastOp' = Op("timerExpire", asioTimer, 0, 0)
    /\ UNCHANGED <<transitionMat, allowedMat, stateInfo, ignEventCallback, current,
                   isRunning, stateCounter, eventCounter, ignoredEvents, signals,
                   loopStopped, terminated, nCfg>>

\* the timeout leaves the machine where it is
TimeOutNextStay(cur) == cur

\* next state of a timeout on state cur
TimeOutNext(cur) == stateInfo[cur].timerEvent.nextState

\* AsioWrapper::timerCallback with error code 0, that is processTimeOut(), as
\* long as the history holds less than maxLogged rows
processTimeOutUpTo(maxLogged) ==
    /\ LoopRunning
    /\ readyTimeouts # <<>>
    /\ readyTimeouts' = Tail(readyTimeouts)
    /\ IF ~stateInfo[current].timerEvent.enabled /\ ~NDEBUG
       THEN /\ terminated' = TRUE
            /\ result' = "exit"
            /\ calls' = <<>>
            /\ lastOp' = Op("processTimeOut", Head(readyTimeouts), current, 0)
            /\ UNCHANGED <<transitionMat, allowedMat, stateInfo, ignEventCallback,
                           current, isRunning, stateCounter, eventCounter,
                           ignoredEvents, asioTimer, signals, loopStopped, nCfg>>
       ELSE /\ Logged < maxLogged
            /\ Enter(Op("processTimeOut", Head(readyTimeouts), current, 0), stateInfo,
                     TimeOutNext(current), EvTimeout, asioTimer, signals, <<>>)
            /\ UNCHANGED <<transitionMat, allowedMat, ignEventCallback,
                           isRunning, ignoredEvents, loopStopped, nCfg>>

\* processTimeOut()
processTimeOut == processTimeOutUpTo(MaxSteps)

\* getStateInfo( idx ): returns the state info by value
getStateInfo(idx) == stateInfo[idx]

\* index of the first active inner transition of stinf, 0 when there is none
FirstActive(stinf) ==
    LET act == {i \in 1 .. Len(stinf.innerTransList) : stinf.innerTransList[i].isActive}
    IN IF act = {} THEN 0 ELSE CHOOSE i \in act : \A j \in act : i <= j

\* processInnerEvent without the pass-state branch
InnerNextNoPass(stinf, cur) ==
    LET i == FirstActive(stinf)
    IN IF i = 0
       THEN [cur |-> cur, ev_idx |-> EvAAT, stinf |-> stinf]
       ELSE [cur |-> stinf.innerTransList[i].destState,
             ev_idx |-> stinf.innerTransList[i].innerEvent,
             stinf |-> [stinf EXCEPT !.innerTransList[i].isActive = FALSE]]

\* processInnerEvent( stinf ): the new current state, the event index it
\* logs, and stinf as the call leaves it
InnerNext(stinf, cur) ==
    IF stinf.isPassState
    THEN [cur |-> stinf.ptNextState, ev_idx |-> EvAAT, stinf |-> stinf]
    ELSE LET i == FirstActive(stinf)
         IN IF i = 0
            THEN [cur |-> cur, ev_idx |-> EvAAT, stinf |-> stinf]
            ELSE [cur |-> stinf.innerTransList[i].destState,
                  ev_idx |-> stinf.innerTransList[i].innerEvent,
                  stinf |-> [stinf EXCEPT !.innerTransList[i].isActive = FALSE]]

\* the state-info table after signalHandler called processInnerEvent on
\* getStateInfo( st_idx ): the flag was cleared in the temporary
TableAfterInner(st_idx, stinfAfter) == stateInfo

\* AsioWrapper::signalHandler, that is processInnerEvent( getStateInfo( current ) )
processInnerEvent ==
    /\ LoopRunning
    /\ signals > 0
    /\ LogEnabled
    /\ LET st_idx == current
           r == InnerNext(getStateInfo(st_idx), current)
           table == TableAfterInner(st_idx, r.stinf)
       IN Enter(Op("processInnerEvent", st_idx, 0, 0), table, r.cur, r.ev_idx,
                asioTimer, signals - 1, <<>>)
    /\ UNCHANGED <<transitionMat, allowedMat, ignEventCallback, isRunning,
                   ignoredEvents, readyTimeouts, loopStopped, nCfg>>

Run ==
    \/ start
    \/ stop
    \/ \E ev \in Events : processEvent(ev)
    \/ \E ev \in Events : activateInnerEvent(ev)
    \/ timerExpire
    \/ processTimeOut
    \/ processInnerEvent

Next == Wire \/ Run

Spec == Init /\ [][Next]_vars

\* configuration calls only
SpecCfg == Init /\ [][Configure]_vars

\* a machine of external transitions, timeouts and pass-states, configured
\* while it is not running
WirePass ==
    \/ \E st1 \in States, ev \in Events, st2 \in States : assignTransition(st1, ev, st2)
    \/ \E st1 \in States, st2 \in States : assignPassTransition(st1, st2)
    \/ \E st1 \in States, st2 \in States : assignTimeOut(st1, st2)
    \/ \E st \in States : assignCallback(st)

NextPass == (~isRunning /\ WirePass) \/ Run

\* a machine of external transitions, inner transitions and timeouts,
\* configured while it is not
\* running
WireInner ==
    \/ \E st1 \in States, ev \in Events, st2 \in States : assignTransition(st1, ev, st2)
    \/ \E st1 \in States, ev \in Events, st2 \in States : assignInnerTransition(st1, ev, st2)
    \/ \E st_curr \in States, st_next \in States : assignTimeOut(st_curr, st_next)

NextInner == (~isRunning /\ WireInner) \/ Run

\* the event loop keeps dispatching what is ready: io_service::run() returns
\* only after stop()
LoopFair == WF_vars(processInnerEvent) /\ WF_vars(processTimeOut)

FairSpecPass == Init /\ [][NextPass]_vars /\ LoopFair

FairSpecInner == Init /\ [][NextInner]_vars /\ LoopFair

\* a machine on which one inner transition has been assigned, and the
\* configuration calls that deal with inner transitions and the allow-mask
InitInner ==
    \E st1 \in States, ev \in Events, st2 \in States :
        /\ transitionMat = [e \in Events |-> [s \in States |->
                               IF e = ev /\ s = st1 THEN st2 ELSE 0]]
        /\ allowedMat = [e \in Events |-> [s \in States |-> e = ev /\ s = st1]]
        /\ stateInfo = [s \in States |->
                           IF s = st1
                           THEN [NewStateInfo EXCEPT !.innerTransList = <<InnerTransition(ev, st2)>>]
                           ELSE NewStateInfo]
        /\ ignEventCallback = FALSE
        /\ current = InitialState
        /\ isRunning = FALSE
        /\ stateCounter = [s \in States |-> 0]
        /\ eventCounter = [e \in 0 .. (NumEvents + 1) |-> 0]
        /\ ignoredEvents = [e \in Events |-> 0]
        /\ asioTimer = NoState
        /\ readyTimeouts = <<>>
        /\ signals = 0
        /\ loopStopped = FALSE
        /\ terminated = FALSE
        /\ calls = <<>>
        /\ result = "ok"
        /\ lastOp = Op("assignInnerTransition", st1, ev, st2)
        /\ nCfg = 0

ConfigureInner ==
    \/ \E st1 \in States, ev \in Events, st2 \in States : assignInnerTransition(st1, ev, st2)
    \/ \E ev \in Events, st \in States : assignInnerTransitionAll(ev, st)
    \/ \E ev \in Events, st \in States : disableInnerTransition(ev, st)
    \/ \E st \in States, ev \in Events, what \in BOOLEAN : allowEvent(st, ev, what)

SpecInnerCfg == InitInner /\ [][ConfigureInner]_vars

\* the values a caller can store in a matrix of ST: the states and one
\* value past the last state
MatValues == 0 .. NumStates

\* configuration of the transition matrix, entry by entry or as a whole
ConfigureMat ==
    \/ \E st1 \in States, ev \in Events, st2 \in States : assignTransition(st1, ev, st2)
    \/ \E mat \in [Events -> [States -> MatValues]] : assignTransitionMat(mat)

SpecMat == Init /\ [][ConfigureMat]_vars

\* a machine that takes its configuration from another machine, before
\* or after it is started
WireCopy ==
    \/ \E st1 \in States, ev \in Events, st2 \in States : assignConfig(st1, ev, st2)
    \/ \E st1 \in States, st2 \in States : assignPassTransition(st1, st2)

NextCopy == WireCopy \/ Run

SpecCopy == Init /\ [][NextCopy]_vars

\* a machine on which one timeout has been assigned, and the calls that
\* assign a timeout to a state and remove it
InitTimed ==
    \E st_curr \in States, st_next \in States :
        /\ transitionMat = [e \in Events |-> [s \in States |-> 0]]
        /\ allowedMat = [e \in Events |-> [s \in States |-> FALSE]]
        /\ stateInfo = [s \in States |->
                           IF s = st_curr
                           THEN TimeOutInfo(NewStateInfo, st_next)
                           ELSE NewStateInfo]
        /\ ignEventCallback = FALSE
        /\ current = InitialState
        /\ isRunning = FALSE
        /\ stateCounter = [s \in States |-> 0]
        /\ eventCounter = [e \in 0 .. (NumEvents + 1) |-> 0]
        /\ ignoredEvents = [e \in Events |-> 0]
        /\ asioTimer = NoState
        /\ readyTimeouts = <<>>
        /\ signals = 0
        /\ loopStopped = FALSE
        /\ terminated = FALSE
        /\ calls = <<>>
        /\ result = "ok"
        /\ lastOp = Op("assignTimeOut", st_curr, st_next, 0)
        /\ nCfg = 0

ConfigureTimeOuts ==
    \/ \E st_curr \in States, st_next \in States : assignTimeOut(st_curr, st_next)
    \/ \E st \in States : clearTimeOut(st)

SpecTimeOuts == InitTimed /\ [][ConfigureTimeOuts]_vars

\* the coin-operated turnstile: enum States { st_Locked, st_Unlocked,
\* NB_STATES }, enum Events { ev_Push, ev_Coin, NB_EVENTS }
st_Locked == 0
st_Unlocked == 1
ev_Push == 0
ev_Coin == 1

\* the turnstile after configureFSM(): two transitions, a callback on both
\* states
InitTurnstile ==
    /\ transitionMat = [e \in {ev_Push, ev_Coin} |-> [s \in {st_Locked, st_Unlocked} |->
                           IF e = ev_Coin /\ s = st_Locked THEN st_Unlocked ELSE st_Locked]]
    /\ allowedMat = [e \in {ev_Push, ev_Coin} |-> [s \in {st_Locked, st_Unlocked} |->
                        \/ e = ev_Coin /\ s = st_Locked
                        \/ e = ev_Push /\ s = st_Unlocked]]
    /\ stateInfo = [s \in {st_Locked, st_Unlocked} |-> [NewStateInfo EXCEPT !.callback = TRUE]]
    /\ ignEventCallback = FALSE
    /\ current = InitialState
    /\ isRunning = FALSE
    /\ stateCounter = [s \in {st_Locked, st_Unlocked} |-> 0]
    /\ eventCounter = [e \in 0 .. 3 |-> 0]
    /\ ignoredEvents = [e \in {ev_Push, ev_Coin} |-> 0]
    /\ asioTimer = NoState
    /\ readyTimeouts = <<>>
    /\ signals = 0
    /\ loopStopped = FALSE
    /\ terminated = FALSE
    /\ calls = <<>>
    /\ result = "ok"
    /\ lastOp = Op("assignCallback", st_Unlocked, 0, 0)
    /\ nCfg = 0

\* main() of the turnstile: start(), then one processEvent per key
NextTurnstile ==
    \/ start
    \/ \E ev \in {ev_Push, ev_Coin} : processEventUpTo(ev, TurnstileSteps)

SpecTurnstile == InitTurnstile /\ [][NextTurnstile]_vars

\* the traffic light: enum States { st_Init, st_Red, st_Orange, st_Green,
\* NB_STATES }, enum Events { NB_EVENTS }
st_Init == 0
st_Red == 1
st_Orange == 2
st_Green == 3

\* the state info of the traffic light after TestClass::config(): a timeout
\* on each of the four states, the same callback on all of them
TrafficInfo ==
    [s \in {st_Init, st_Red, st_Orange, st_Green} |->
        [TimeOutInfo(NewStateInfo,
                     CASE s = st_Init -> st_Red
                       [] s = st_Red -> st_Green
                       [] s = st_Green -> st_Orange
                       [] OTHER -> st_Red)
         EXCEPT !.callback = TRUE]]

\* the traffic light after TestClass::config(): no event, so the two matrices
\* have no row
InitTraffic ==
    /\ transitionMat = <<>>
    /\ allowedMat = <<>>
    /\ stateInfo = TrafficInfo
    /\ ignEventCallback = FALSE
    /\ current = InitialState
    /\ isRunning = FALSE
    /\ stateCounter = [s \in {st_Init, st_Red, st_Orange, st_Green} |-> 0]
    /\ eventCounter = [e \in 0 .. 1 |-> 0]
    /\ ignoredEvents = <<>>
    /\ asioTimer = NoState
    /\ readyTimeouts = <<>>
    /\ signals = 0
    /\ loopStopped = FALSE
    /\ terminated = FALSE
    /\ calls = <<>>
    /\ result = "ok"
    /\ lastOp = Op("assignCallback", 0, 0, 0)
    /\ nCfg = 0

\* main() of the traffic light: one start(), then the event loop serves the
\* timer
NextTraffic ==
    \/ ~isRunning /\ start
    \/ timerExpire
    \/ processTimeOutUpTo(TrafficSteps)

\* every armed timer expires and the loop dispatches every expiry
FairSpecTraffic ==
    /\ InitTraffic /\ [][NextTraffic]_vars
    /\ WF_vars(timerExpire) /\ WF_vars(processTimeOutUpTo(TrafficSteps))

\* one edge statement of the dot file: src -> dst [label=...], the label
\* being E<ev>, TO:<duration>, AAT or IE<ev>
DotEdge(kind, ev, src, dst) == [op |-> kind, ev |-> ev, a |-> src, b |-> dst]

\* writeDotFile, first loop: the external events, event after event and state
\* after state; k numbers the pairs (k \div nbStates, k % nbStates)
RECURSIVE DotExternal(_)
DotExternal(k) ==
    IF k >= nbEvents * nbStates
    THEN <<>>
    ELSE LET i == k \div nbStates
             j == k % nbStates
         IN (IF allowedMat[i][j] /\ ~stateInfo[j].isPassState
             THEN <<DotEdge("E", i, j, transitionMat[i][j])>> ELSE <<>>)
            \o DotExternal(k + 1)

\* the inner transitions of state j, in list order
DotInnerList(j) ==
    [n \in 1 .. Len(stateInfo[j].innerTransList) |->
        DotEdge("IE", stateInfo[j].innerTransList[n].innerEvent, j,
                stateInfo[j].innerTransList[n].destState)]

\* writeDotFile, second loop: for every state its timeout, its pass-state
\* transition, read in row 0 of the transition matrix, and its inner
\* transitions
RECURSIVE DotStates(_)
DotStates(j) ==
    IF j >= nbStates
    THEN <<>>
    ELSE (IF stateInfo[j].timerEvent.enabled
          THEN <<DotEdge("TO", 0, j, stateInfo[j].timerEvent.nextState)>> ELSE <<>>)
         \o (IF stateInfo[j].isPassState
             THEN <<DotEdge("AAT", 0, j, transitionMat[0][j])>> ELSE <<>>)
         \o DotInnerList(j)
         \o DotStates(j + 1)

\* writeDotFile( fname, opt ) with every option on: the edge statements
\* written, or a runtime error when the file cannot be opened
writeDotFile(opened) ==
    /\ ~terminated
    /\ calls' = IF opened THEN DotExternal(0) \o DotStates(0) ELSE <<>>
    /\ result' = IF opened THEN "ok" ELSE "rt_error"
    /\ lastOp' = Op("writeDotFile", 0, 0, 0)
    /\ UNCHANGED <<transitionMat, allowedMat, stateInfo, ignEventCallback, current,
                   isRunning, stateCounter, eventCounter, ignoredEvents, asioTimer,
                   readyTimeouts, signals, loopStopped, terminated, nCfg>>

\* a machine being configured and drawn
NextDot ==
    \/ \E st1 \in States, ev \in Events, st2 \in States : assignTransition(st1, ev, st2)
    \/ \E st1 \in States, st2 \in States : assignPassTransition(st1, st2)
    \/ \E st1 \in States, ev \in Events, st2 \in States : assignInnerTransition(st1, ev, st2)
    \/ \E st1 \in States, st2 \in States : assignTimeOut(st1, st2)
    \/ \E opened \in BOOLEAN : writeDotFile(opened)

SpecDot == Init /\ [][NextDot]_vars

\* a machine that already holds one inner transition, then given timeouts,
\* callbacks and pass-states while it is not running
WireEntry ==
    \/ \E st1 \in States, st2 \in States : assignTimeOut(st1, st2)
    \/ \E st \in States : assignCallback(st)
    \/ \E st1 \in States, st2 \in States : assignPassTransition(st1, st2)

NextEntry == (~isRunning /\ WireEntry) \/ Run

SpecEntry == InitInner /\ [][NextEntry]_vars

\* a machine that already holds one inner transition, then given external
\* transitions, timeouts and callbacks that activate an inner event
WireCallback ==
    \/ \E st1 \in States, ev \in Events, st2 \in States : assignTransition(st1, ev, st2)
    \/ \E st1 \in States, st2 \in States : assignTimeOut(st1, st2)
    \/ \E st \in States, ev \in Events : assignCallbackActivating(st, ev)

NextCallback == (~isRunning /\ WireCallback) \/ Run

SpecCallback == InitInner /\ [][NextCallback]_vars

\* a machine instantiated with two events, just constructed
InitTwoEvents ==
    /\ transitionMat = [e \in 0 .. 1 |-> [s \in States |-> 0]]
    /\ allowedMat = [e \in 0 .. 1 |-> [s \in States |-> FALSE]]
    /\ stateInfo = [s \in States |-> NewStateInfo]
    /\ ignEventCallback = FALSE
    /\ current = InitialState
    /\ isRunning = FALSE
    /\ stateCounter = [s \in States |-> 0]
    /\ eventCounter = [e \in 0 .. 3 |-> 0]
    /\ ignoredEvents = [e \in 0 .. 1 |-> 0]
    /\ asioTimer = NoState
    /\ readyTimeouts = <<>>
    /\ signals = 0
    /\ loopStopped = FALSE
    /\ terminated = FALSE
    /\ calls = <<>>
    /\ result = "ok"
    /\ lastOp = Op("construct", 0, 0, 0)
    /\ nCfg = 0

\* the two-event machine is given inner transitions and timeouts, then runs
\* with inner events being activated
NextActivate ==
    \/ ~isRunning /\ \E st1 \in States, ev \in 0 .. 1, st2 \in States :
                        assignInnerTransition(st1, ev, st2)
    \/ ~isRunning /\ \E st1 \in States, st2 \in States : assignTimeOut(st1, st2)
    \/ \E ev \in 0 .. 1 : activateInnerEvent(ev)
    \/ start
    \/ timerExpire
    \/ processTimeOut
    \/ processInnerEvent

SpecActivate == InitTwoEvents /\ [][NextActivate]_vars

\* a machine on which no transition on an event is ever assigned: timeouts
\* and the allow-mask only
WireAllow ==
    \/ \E st \in States, ev \in Events, what \in BOOLEAN : allowEvent(st, ev, what)
    \/ allowAllEvents
    \/ \E st1 \in States, st2 \in States : assignTimeOut(st1, st2)

NextAllow ==
    \/ ~isRunning /\ WireAllow
    \/ start
    \/ stop
    \/ \E ev \in Events : processEvent(ev)
    \/ timerExpire
    \/ processTimeOut

SpecAllow == Init /\ [][NextAllow]_vars

\* ------------------------------------------------------------- properties
Range(seq) == {seq[i] : i \in 1 .. Len(seq)}

\* position of call c in the sequence, 0 when absent
Pos(seq, c) ==
    LET at == {i \in 1 .. Len(seq) : seq[i] = c}
    IN IF at = {} THEN 0 ELSE CHOOSE i \in at : \A j \in at : i <= j

Count(seq, c) == Cardinality({i \in 1 .. Len(seq) : seq[i] = c})

\* the calls of the entry action of state st are the tail of the sequence:
\* timer armed iff st has a timeout, callback run once iff st has one,
\* timer before callback
EntryActionRan(seq, info, st) ==
    /\ Count(seq, Call("timerStart", st, 0)) = (IF info[st].timerEvent.enabled THEN 1 ELSE 0)
    /\ Count(seq, Call("callback", st, 0)) = (IF info[st].callback THEN 1 ELSE 0)
    /\ (info[st].timerEvent.enabled /\ info[st].callback)
          => Pos(seq, Call("timerStart", st, 0)) < Pos(seq, Call("callback", st, 0))

\* C1: at every point of every run (configuration, start, any interleaving
\* of events, timeouts, inner events and stop) the current state is a
\* valid state index
C1_CurrentInRange == current \in States

C1_Witness ==
    /\ isRunning
    /\ Logged = MaxSteps
    /\ current # 0
    /\ lastOp.name = "processInnerEvent"

\* C2: after any sequence of configuration calls every pass-state has a
\* successor other than itself, a disabled timer and no inner transition
C2_PassStateExclusive ==
    \A s \in States :
        stateInfo[s].isPassState =>
            /\ stateInfo[s].ptNextState # s
            /\ ~stateInfo[s].timerEvent.enabled
            /\ stateInfo[s].innerTransList = <<>>

\* C3: assignTransition(s,e,s2) on a state that is not a pass-state writes
\* s2 in the matrix and allows e; processEvent(e) on a running machine
\* resting on a non-pass-state s where e is allowed cancels the timer of s
\* if s has one, moves to the state the matrix holds and runs its entry action
C3_TransitionTaken ==
    /\ [][(lastOp'.name = "assignTransition" /\ result' = "ok")
            => /\ ~stateInfo[lastOp'.a].isPassState
               /\ transitionMat'[lastOp'.b][lastOp'.a] = lastOp'.c
               /\ allowedMat'[lastOp'.b][lastOp'.a]]_vars
    /\ [][(/\ lastOp'.name = "processEvent"
           /\ isRunning
           /\ allowedMat[lastOp'.a][current]
           /\ ~stateInfo[current].isPassState)
            => /\ current' = transitionMat[lastOp'.a][current]
               /\ (stateInfo[current].timerEvent.enabled
                     => /\ calls'[1] = Call("timerCancel", current, 0)
                        /\ asioTimer' \in {NoState, current'})
               /\ Call("log", current', lastOp'.a) \in Range(calls')
               /\ EntryActionRan(calls', stateInfo, current')]_vars

C3_Witness ==
    /\ lastOp.name = "processEvent"
    /\ result = "ok"
    /\ current = 2
    /\ lastOp.b = 0
    /\ stateInfo[0].timerEvent.enabled
    /\ ~stateInfo[0].isPassState
    /\ Call("timerCancel", 0, 0) \in Range(calls)
    /\ Call("log", 2, lastOp.a) \in Range(calls)

\* C4: processEvent(e) on a running machine where e is not allowed on the
\* current state leaves current unchanged, adds exactly 1 to the ignored
\* counter of e, calls the ignored-events callback (when one is assigned)
\* exactly once with (current, e), and touches neither the timer, the
\* signals, the state callbacks nor the state and event counters
C4_IgnoredEvent ==
    [][(/\ lastOp'.name = "processEvent"
        /\ isRunning
        /\ ~allowedMat[lastOp'.a][current])
         => /\ current' = current
            /\ ignoredEvents' = [ignoredEvents EXCEPT ![lastOp'.a] = @ + 1]
            /\ calls' = (IF ignEventCallback
                         THEN <<Call("ignEventCallback", current, lastOp'.a)>>
                         ELSE <<>>)
            /\ UNCHANGED <<asioTimer, readyTimeouts, signals, stateCounter,
                           eventCounter, isRunning, stateInfo>>]_vars

C4_Witness ==
    /\ lastOp.name = "processEvent"
    /\ result = "ok"
    /\ isRunning
    /\ ignoredEvents[0] = 1
    /\ calls = <<Call("ignEventCallback", current, 0)>>
    /\ asioTimer = current

\* C5: processTimeOut() delivered while the current state s has an enabled
\* timeout sets current to the next state of that timeout, logs the
\* transition with event index NumEvents before anything else and then runs
\* the entry action of the new state
C5_TimeOutTaken ==
    [][(/\ lastOp'.name = "processTimeOut"
        /\ stateInfo[current].timerEvent.enabled)
         => /\ current' = stateInfo[current].timerEvent.nextState
            /\ calls'[1] = Call("log", current', NumEvents)
            /\ eventCounter' = [eventCounter EXCEPT ![NumEvents] = @ + 1]
            /\ stateCounter' = [stateCounter EXCEPT ![current'] = @ + 1]
            /\ EntryActionRan(calls', stateInfo, current')]_vars

C5_Witness ==
    /\ lastOp.name = "processTimeOut"
    /\ result = "ok"
    /\ current = 1
    /\ lastOp.b = 0
    /\ eventCounter[NumEvents] = 1
    /\ Call("callback", 1, 0) \in Range(calls)

\* C6: a timer that is armed, or whose expiry waits for dispatch, was armed
\* by the entry action of the current state, and processTimeOut() never
\* finds the timeout of the current state disabled
C6_TimerBelongsToCurrent ==
    /\ asioTimer \in {NoState, current}
    /\ \A i \in 1 .. Len(readyTimeouts) : readyTimeouts[i] = current
    /\ lastOp.name = "processTimeOut" => (result = "ok" /\ lastOp.a = lastOp.b)

\* C7: processInnerEvent dispatched on a current state s that is not a
\* pass-state and has an active inner transition moves to the destination
\* of the first active one and leaves exactly that flag false in the table
C7_InnerFlagCleared ==
    [][(/\ lastOp'.name = "processInnerEvent"
        /\ ~stateInfo[current].isPassState
        /\ FirstActive(stateInfo[current]) # 0)
         => LET i == FirstActive(stateInfo[current])
            IN /\ current' = stateInfo[current].innerTransList[i].destState
               /\ stateInfo' = [stateInfo EXCEPT
                                  ![current].innerTransList[i].isActive = FALSE]]_vars

\* the entry action of state s, a pass-state, has just raised the signal
EnteredPassState(s) ==
    /\ LoopRunning
    /\ current = s
    /\ stateInfo[s].isPassState
    /\ Call("raiseSignal", s, 0) \in Range(calls)

C9_ActivatedInnerFires ==
    \A s \in States, e \in Events :
        (/\ LoopRunning
         /\ current = s
         /\ lastOp = Op("activateInnerEvent", e, s, 0)
         /\ ~stateInfo[s].isPassState
         /\ findInnerEvent(stateInfo[s], e) # 0)
        ~> \/ (/\ lastOp.name = "processInnerEvent"
               /\ lastOp.a = s
               /\ \E i \in 1 .. Len(stateInfo[s].innerTransList) :
                     /\ stateInfo[s].innerTransList[i].innerEvent = e
                     /\ current = stateInfo[s].innerTransList[i].destState)
           \/ lastOp.name \notin {"activateInnerEvent", "timerExpire", "processInnerEvent"}
           \/ terminated

\* C10: when the entry action of a state that has an enabled timeout has
\* just raised the signal, the machine is not moved by processTimeOut()
C10_InnerWinsOverTimeOut ==
    [][(/\ LoopRunning
        /\ Call("raiseSignal", current, 0) \in Range(calls)
        /\ stateInfo[current].timerEvent.enabled)
         => lastOp'.name # "processTimeOut"]_vars

\* C11: every start() made on a machine that is not running sets isRunning
\* and executes the entry action of state 0 after the validator: current
\* is 0 when runAction() is executed, on the first start() and on a start()
\* that follows a stop()
C11_StartOnInitialState ==
    [][(lastOp'.name = "start" /\ ~isRunning)
         => /\ isRunning'
            /\ current = 0
            /\ current' = 0
            /\ calls' = doChecking \o runAction(stateInfo, 0, asioTimer, signals).calls]_vars

\* C12: stop() on a running machine calls timerCancel() then timerKill()
\* and clears isRunning; while the machine is not running no timer is
\* armed, current does not change and neither a timeout nor an inner
\* event is processed
C12_StopQuiesces ==
    /\ [][(lastOp'.name = "stop" /\ isRunning)
            => /\ ~isRunning'
               /\ calls' = <<Call("timerCancel", current, 0), Call("timerKill", current, 0)>>
               /\ asioTimer' = NoState
               /\ loopStopped'
               /\ current' = current]_vars
    /\ [](~isRunning => asioTimer = NoState)
    /\ [][(~isRunning /\ ~isRunning') => current' = current]_vars
    /\ [][~isRunning => lastOp'.name \notin {"processTimeOut", "processInnerEvent", "timerExpire"}]_vars

C12_Witness ==
    /\ lastOp.name = "stop"
    /\ result = "ok"
    /\ ~isRunning
    /\ readyTimeouts # <<>>
    /\ stateInfo[current].timerEvent.enabled
    /\ asioTimer = NoState

\* C13: start() on a running machine, stop() on a machine that is not
\* running and processEvent() on a machine that is not running end in a
\* runtime error the caller can handle, and leave current, isRunning, the
\* armed timer and the counters as they were
C13_MisuseIsRuntimeError ==
    [][(\/ lastOp'.name = "start" /\ isRunning
        \/ lastOp'.name = "stop" /\ ~isRunning
        \/ lastOp'.name = "processEvent" /\ ~isRunning)
         => /\ result' = "rt_error"
            /\ ~terminated'
            /\ UNCHANGED <<current, isRunning, asioTimer, stateCounter,
                           eventCounter, ignoredEvents>>]_vars

\* the part of a state's info that configuration calls set: everything but
\* the active flags of its inner transitions
Wiring(stinf) ==
    [stinf EXCEPT !.innerTransList =
        [i \in 1 .. Len(stinf.innerTransList) |->
            [stinf.innerTransList[i] EXCEPT !.isActive = FALSE]]]

\* C14: while the machine is running every configuration call is rejected
\* with a configuration error, and no step changes the transition matrix,
\* the allow-mask, the timeouts, the pass-state markers or the
\* inner-transition lists (their active flags apart)
C14_FrozenWhileRunning ==
    [][isRunning
         => /\ nCfg' # nCfg => result' = "cfg_error"
            /\ UNCHANGED <<transitionMat, allowedMat>>
            /\ \A s \in States : Wiring(stateInfo'[s]) = Wiring(stateInfo[s])]_vars

\* C15: a state made a pass-state stays one under every configuration
\* call, and assignTransition(s,e,_) on a pass-state s ends in a
\* configuration error and leaves the transition matrix and the
\* allow-mask as they were
C15_NoTransitionFromPassState ==
    /\ [][\A s \in States : stateInfo[s].isPassState => stateInfo'[s].isPassState]_vars
    /\ [][(/\ nCfg' # nCfg
           /\ lastOp'.name = "assignTransition"
           /\ stateInfo[lastOp'.a].isPassState)
            => /\ result' = "cfg_error"
               /\ UNCHANGED <<transitionMat, allowedMat, stateInfo>>]_vars

C15_Witness ==
    /\ lastOp.name = "assignTransition"
    /\ result = "cfg_error"
    /\ stateInfo[lastOp.a].isPassState
    /\ lastOp.c # transitionMat[lastOp.b][lastOp.a]
    /\ ~allowedMat[lastOp.b][lastOp.a]

\* C16: assignPassTransition(s,s) ends in a configuration error and
\* leaves the whole configuration as it was: s is not made a pass-state
\* and keeps its timeout and its inner transitions
C16_PassToSelfRejected ==
    [][(/\ nCfg' # nCfg
        /\ lastOp'.name = "assignPassTransition"
        /\ lastOp'.a = lastOp'.b)
         => /\ result' = "cfg_error"
            /\ UNCHANGED cfgVars]_vars

C16_Witness ==
    /\ lastOp.name = "assignPassTransition"
    /\ lastOp.a = lastOp.b
    /\ result = "cfg_error"
    /\ ~stateInfo[lastOp.a].isPassState
    /\ \/ stateInfo[lastOp.a].timerEvent.enabled
       \/ stateInfo[lastOp.a].innerTransList # <<>>

\* the calls an entry action makes
EntryCalls == {"timerStart", "callback", "raiseSignal", "timerCancel"}

\* C17: start() on a configuration where the successor of a pass-state is
\* itself a pass-state ends in a configuration error: isRunning stays
\* false and no entry action runs
C17_PassToPassRejected ==
    [][(/\ lastOp'.name = "start"
        /\ ~isRunning
        /\ \E s \in States : /\ stateInfo[s].isPassState
                             /\ stateInfo[stateInfo[s].ptNextState].isPassState)
         => /\ result' = "cfg_error"
            /\ ~isRunning'
            /\ \A i \in 1 .. Len(calls') : calls'[i].op \notin EntryCalls]_vars

\* C18: start() on a configuration where a pass-state has an enabled
\* timeout ends in a configuration error: isRunning stays false and no
\* timer is armed
C18_PassWithTimeOutRejected ==
    [][(/\ lastOp'.name = "start"
        /\ ~isRunning
        /\ \E s \in States : /\ stateInfo[s].isPassState
                             /\ stateInfo[s].timerEvent.enabled)
         => /\ result' = "cfg_error"
            /\ ~isRunning'
            /\ asioTimer' = NoState
            /\ Call("timerStart", current, 0) \notin Range(calls')]_vars

\* state s is the target of an allowed external transition, an enabled
\* timeout, a pass-state transition or an inner transition of another state
HasIncoming(s) ==
    \E t \in States \ {s} :
        \/ \E e \in Events : allowedMat[e][t] /\ transitionMat[e][t] = s
        \/ stateInfo[t].timerEvent.enabled /\ stateInfo[t].timerEvent.nextState = s
        \/ stateInfo[t].isPassState /\ stateInfo[t].ptNextState = s
        \/ \E n \in 1 .. Len(stateInfo[t].innerTransList) :
              stateInfo[t].innerTransList[n].destState = s

\* C19: the validator run by start() prints exactly one 'unreachable'
\* warning for every state s > 0 that no other state leads to, and none
\* for state 0 or for a state some other state leads to
C19_UnreachableWarning ==
    [][(lastOp'.name = "start" /\ ~isRunning)
         => \A s \in States :
               Count(calls', Call("unreachable", s, 0))
                  = (IF s > 0 /\ ~HasIncoming(s) THEN 1 ELSE 0)]_vars

C19_Witness ==
    /\ lastOp.name = "start"
    /\ result = "ok"
    /\ allowedMat[0][2] /\ transitionMat[0][2] = 2
    /\ Count(calls, Call("unreachable", 2, 0)) = 1
    /\ Count(calls, Call("unreachable", 1, 0)) = 0
    /\ Count(calls, Call("unreachable", 0, 0)) = 0

\* C20: the validator run by start() prints a 'dead-end' warning for state
\* s exactly when s has no enabled timeout, is not a pass-state, has no
\* allowed external transition to another state, and is state 0 or a state
\* some other state leads to
C20_DeadEndWarning ==
    [][(lastOp'.name = "start" /\ ~isRunning)
         => \A s \in States :
               Count(calls', Call("dead-end", s, 0))
                  = (IF /\ ~stateInfo[s].timerEvent.enabled
                        /\ ~stateInfo[s].isPassState
                        /\ \A e \in Events : ~allowedMat[e][s] \/ transitionMat[e][s] = s
                        /\ (s = 0 \/ HasIncoming(s))
                     THEN 1 ELSE 0)]_vars

C20_Witness ==
    /\ lastOp.name = "start"
    /\ result = "ok"
    /\ Count(calls, Call("dead-end", 1, 0)) = 1
    /\ Count(calls, Call("dead-end", 0, 0)) = 0
    /\ Count(calls, Call("dead-end", 2, 0)) = 0
    /\ Count(calls, Call("unreachable", 2, 0)) = 1
    /\ allowedMat[0][1] /\ transitionMat[0][1] = 1

\* the only thing configured is the external transition S0 --E0--> S1
OnlyS0E0S1 ==
    /\ transitionMat[0][0] = 1
    /\ \A e \in Events, st \in States : allowedMat[e][st] <=> (e = 0 /\ st = 0)
    /\ \A st \in States : /\ ~stateInfo[st].timerEvent.enabled
                          /\ ~stateInfo[st].isPassState
                          /\ stateInfo[st].innerTransList = <<>>

\* C21 as stated: on the machine whose only transition is S0 --E0--> S1,
\* start() succeeds and the validator prints exactly one warning naming S2
\* as unreachable and exactly one naming S2 as a dead-end
C21_S2UnreachableAndDeadEnd ==
    [][(lastOp'.name = "start" /\ ~isRunning /\ OnlyS0E0S1)
         => /\ isRunning'
            /\ Count(calls', Call("unreachable", 2, 0)) = 1
            /\ Count(calls', Call("dead-end", 2, 0)) = 1]_vars

\* C21: on the machine whose only transition is S0 --E0--> S1, start()
\* succeeds and the validator prints exactly one warning naming S2 as
\* unreachable, none naming S2 as a dead-end (an unreachable state is not
\* reported as a dead-end) and exactly one naming S1 as a dead-end
C21_S2UnreachableS1DeadEnd ==
    [][(lastOp'.name = "start" /\ ~isRunning /\ OnlyS0E0S1)
         => /\ isRunning'
            /\ result' = "ok"
            /\ Count(calls', Call("unreachable", 2, 0)) = 1
            /\ Count(calls', Call("unreachable", 1, 0)) = 0
            /\ Count(calls', Call("dead-end", 2, 0)) = 0
            /\ Count(calls', Call("dead-end", 1, 0)) = 1
            /\ Count(calls', Call("dead-end", 0, 0)) = 0]_vars

C21_Witness ==
    /\ lastOp.name = "start"
    /\ result = "ok"
    /\ isRunning
    /\ OnlyS0E0S1
    /\ Count(calls, Call("unreachable", 2, 0)) = 1
    /\ Count(calls, Call("dead-end", 1, 0)) = 1
    /\ Count(calls, Call("dead-end", 2, 0)) = 0

\* C22: assignGlobalTimeOut(d, unit, final) ends in a configuration error
\* when a state other than final already has an enabled timeout, and then
\* leaves the timeout of every state as it was; otherwise every state
\* other than final gets the timeout to final and final keeps its own
C22_GlobalTimeOutAllOrNothing ==
    [][(nCfg' # nCfg /\ lastOp'.name = "assignGlobalTimeOut")
         => LET final == lastOp'.a
            IN IF \E s \in States \ {final} : stateInfo[s].timerEvent.enabled
               THEN /\ result' = "cfg_error"
                    /\ \A s \in States : stateInfo'[s].timerEvent = stateInfo[s].timerEvent
               ELSE /\ result' = "ok"
                    /\ \A s \in States \ {final} : stateInfo'[s].timerEvent = TimerEvent(final)
                    /\ stateInfo'[final].timerEvent = stateInfo[final].timerEvent]_vars

\* C23: after any sequence of configuration calls no state holds two
\* inner transitions with the same event and the same destination
C23_InnerTransitionsDistinct ==
    \A s \in States :
        \A i, j \in 1 .. Len(stateInfo[s].innerTransList) :
            i # j => \/ stateInfo[s].innerTransList[i].innerEvent
                          # stateInfo[s].innerTransList[j].innerEvent
                     \/ stateInfo[s].innerTransList[i].destState
                          # stateInfo[s].innerTransList[j].destState

\* C24: disableInnerTransition(event, from) on a state that carries an
\* inner transition on event leaves from without any inner transition on
\* event, its other inner transitions in their order, and everything else
\* as it was; on a state that carries none it ends in a configuration
\* error and changes nothing
C24_DisableRemovesEvent ==
    [][(nCfg' # nCfg /\ lastOp'.name = "disableInnerTransition")
         => LET ev == lastOp'.a
                from == lastOp'.b
                old == stateInfo[from].innerTransList
            IN IF \E i \in 1 .. Len(old) : old[i].innerEvent = ev
               THEN /\ result' = "ok"
                    /\ stateInfo' = [stateInfo EXCEPT ![from].innerTransList =
                                       SelectSeq(old, LAMBDA t : t.innerEvent # ev)]
                    /\ UNCHANGED <<transitionMat, allowedMat, ignEventCallback>>
               ELSE /\ result' = "cfg_error"
                    /\ UNCHANGED cfgVars]_vars

\* C25: allowEvent(from, event, b) on a state from that carries an inner
\* transition triggered by event, whatever its destination, ends in an
\* error and leaves the allow-mask as it was
C25_AllowEventOnInnerRejected ==
    [][(/\ nCfg' # nCfg
        /\ lastOp'.name = "allowEvent"
        /\ \E i \in 1 .. Len(stateInfo[lastOp'.a].innerTransList) :
              stateInfo[lastOp'.a].innerTransList[i].innerEvent = lastOp'.b)
         => /\ result' \in {"cfg_error", "rt_error"}
            /\ allowedMat' = allowedMat]_vars

C27_AssignConfigCopies ==
    [][(nCfg' # nCfg /\ lastOp'.name = "assignConfig")
         => LET M2 == OtherMachine(lastOp'.a, lastOp'.b, lastOp'.c)
            IN /\ result' = "ok"
               /\ transitionMat' = M2.transitionMat
               /\ allowedMat' = M2.allowedMat
               /\ stateInfo' = M2.stateInfo
               /\ UNCHANGED <<current, isRunning>>]_vars

C27_Witness ==
    /\ lastOp.name = "assignConfig"
    /\ result = "ok"
    /\ isRunning
    /\ current # 0
    /\ stateInfo = OtherMachine(lastOp.a, lastOp.b, lastOp.c).stateInfo
    /\ transitionMat = OtherMachine(lastOp.a, lastOp.b, lastOp.c).transitionMat
    /\ stateInfo[lastOp.c].timerEvent.enabled

\* C28: clearTimeOut(s) never fails; it disables the timeout of s and
\* changes nothing else, and it prints a warning exactly when s had no
\* enabled timeout: of two calls in a row on a state that has a timeout
\* the first prints nothing, and the second prints one warning and leaves
\* the configuration as the first left it
C28_ClearTimeOutIdempotent ==
    [][(nCfg' # nCfg /\ lastOp'.name = "clearTimeOut")
         => LET s == lastOp'.a
            IN /\ result' = "ok"
               /\ stateInfo' = [stateInfo EXCEPT ![s].timerEvent.enabled = FALSE]
               /\ UNCHANGED <<transitionMat, allowedMat, ignEventCallback>>
               /\ calls' = (IF stateInfo[s].timerEvent.enabled
                            THEN <<>>
                            ELSE <<Call("warning", s, s)>>)
               /\ ~stateInfo[s].timerEvent.enabled => stateInfo' = stateInfo]_vars

\* the second of two clearTimeOut(s) on the state that had the timeout
C28_Witness ==
    /\ nCfg = 2
    /\ lastOp.name = "clearTimeOut"
    /\ result = "ok"
    /\ calls = <<Call("warning", lastOp.a, lastOp.a)>>
    /\ stateInfo[lastOp.a].timerEvent.nextState # 0
    /\ \A s \in States : ~stateInfo[s].timerEvent.enabled

\* C29: in the running turnstile, Coin while Locked moves to Unlocked, Push
\* while Unlocked moves to Locked, and every other event leaves current
\* unchanged and adds one to the ignored counter of that event; in particular
\* after two counted Coin, one counted Push and one ignored Push (the sequence
\* Coin, Push, Push, Coin) the turnstile is Unlocked, and Locked and Unlocked
\* have each been entered twice
C29_Turnstile ==
    /\ [][(isRunning /\ lastOp'.name = "processEvent") =>
            LET ev == lastOp'.a
            IN  IF ev = ev_Coin /\ current = st_Locked
                THEN current' = st_Unlocked /\ ignoredEvents' = ignoredEvents
                ELSE IF ev = ev_Push /\ current = st_Unlocked
                THEN current' = st_Locked /\ ignoredEvents' = ignoredEvents
                ELSE /\ current' = current
                     /\ ignoredEvents' = [ignoredEvents EXCEPT ![ev] = @ + 1]]_vars
    /\ []((/\ isRunning
           /\ eventCounter[ev_Coin] = 2 /\ eventCounter[ev_Push] = 1
           /\ ignoredEvents[ev_Push] = 1 /\ ignoredEvents[ev_Coin] = 0)
          => /\ current = st_Unlocked
             /\ stateCounter[st_Locked] = 2 /\ stateCounter[st_Unlocked] = 2)

\* the turnstile after Coin, Push, Push, Coin
C29_Witness ==
    /\ isRunning /\ result = "ok"
    /\ lastOp = Op("processEvent", ev_Coin, st_Locked, 0)
    /\ current = st_Unlocked
    /\ eventCounter[ev_Coin] = 2 /\ eventCounter[ev_Push] = 1
    /\ ignoredEvents[ev_Push] = 1 /\ ignoredEvents[ev_Coin] = 0
    /\ stateCounter[st_Locked] = 2 /\ stateCounter[st_Unlocked] = 2

\* the timeout successor of each state of the traffic light
TrafficSuccessor(s) ==
    CASE s = st_Init -> st_Red
      [] s = st_Red -> st_Green
      [] s = st_Green -> st_Orange
      [] s = st_Orange -> st_Red

\* C30: in the traffic light, current changes only by a timeout and then to
\* the timeout successor of the current state (Init, Red, Green, Orange, Red,
\* ...), Init is never entered again, start() and every timeout arm exactly one
\* timer, on the state entered, and with fair timer expiry each of Red, Green
\* and Orange is left and entered again as long as the history has room
C30_TrafficLightCycle ==
    /\ [][/\ (current' # current \/ lastOp'.name = "processTimeOut")
             => /\ lastOp'.name = "processTimeOut"
                /\ current' = TrafficSuccessor(current)
                /\ current' # st_Init
          /\ lastOp'.name \in {"start", "processTimeOut"}
             => /\ result' = "ok"
                /\ Count(calls', Call("timerStart", current', 0)) = 1
                /\ Cardinality({i \in 1 .. Len(calls') : calls'[i].op = "timerStart"}) = 1
                /\ asioTimer' = current']_vars
    /\ \A c \in {st_Red, st_Green, st_Orange} :
          /\ (isRunning /\ current # c /\ Logged + 3 <= TrafficSteps) ~> (current = c)
          /\ (isRunning /\ current = c /\ Logged + 1 <= TrafficSteps) ~> (current # c)

\* the light is Red for the second time, after Init, Red, Green, Orange
C30_Witness ==
    /\ isRunning /\ result = "ok"
    /\ lastOp = Op("processTimeOut", st_Orange, st_Orange, 0)
    /\ current = st_Red /\ asioTimer = st_Red
    /\ stateCounter = [s \in {st_Init, st_Red, st_Orange, st_Green} |->
                          IF s = st_Red THEN 2 ELSE 1]
    /\ eventCounter[EvTimeout] = 4

\* the edges a drawing of the configuration is expected to hold
ExpectedDotEdges ==
    {DotEdge("E", e, s, transitionMat[e][s]) :
        <<e, s>> \in {p \in Events \X States :
                         allowedMat[p[1]][p[2]] /\ ~stateInfo[p[2]].isPassState}}
    \cup {DotEdge("TO", 0, s, stateInfo[s].timerEvent.nextState) :
            s \in {t \in States : stateInfo[t].timerEvent.enabled}}
    \cup {DotEdge("AAT", 0, s, stateInfo[s].ptNextState) :
            s \in {t \in States : stateInfo[t].isPassState}}
    \cup UNION {{DotEdge("IE", stateInfo[s].innerTransList[n].innerEvent, s,
                         stateInfo[s].innerTransList[n].destState) :
                    n \in 1 .. Len(stateInfo[s].innerTransList)} : s \in States}

\* C31: the edges written by writeDotFile are exactly the allowed external
\* transitions of the states that are not pass-states, the enabled timeouts,
\* one edge from every pass-state to its pass-state successor, and the inner
\* transitions
C31_DotEdgesMatchConfig ==
    (lastOp.name = "writeDotFile" /\ result = "ok") => Range(calls) = ExpectedDotEdges

\* C32: in the calls of an entry action the timer of the new state is armed
\* before its callback runs, the callback runs before the signal is raised,
\* and timerCancel is the call that follows the raising of the signal
C32_EntryActionOrder ==
    (result = "ok" /\ lastOp.name \in {"start", "processEvent", "processTimeOut",
                                       "processInnerEvent"})
    => LET t == Pos(calls, Call("timerStart", current, 0))
           c == Pos(calls, Call("callback", current, 0))
           r == Pos(calls, Call("raiseSignal", current, 0))
       IN /\ (t > 0 /\ c > 0) => t < c
          /\ (c > 0 /\ r > 0) => c < r
          /\ (t > 0 /\ r > 0) => t < r
          /\ r > 0 => (r < Len(calls) /\ calls[r + 1] = Call("timerCancel", current, 0))
          /\ \A i \in 1 .. Len(calls) :
                calls[i].op \in {"timerStart", "callback", "raiseSignal"} => calls[i].a = current

\* an entry action that took all three steps
C32_Witness ==
    /\ result = "ok"
    /\ lastOp.name \in {"start", "processEvent", "processTimeOut", "processInnerEvent"}
    /\ \E n \in 0 .. Len(calls) :
          SubSeq(calls, n + 1, Len(calls)) =
             <<Call("timerStart", current, 0), Call("callback", current, 0),
               Call("raiseSignal", current, 0), Call("timerCancel", current, 0)>>

\* C33: an entry action raises the signal exactly when, once the callback of
\* the new state has returned, the new state is a pass-state or carries an
\* active inner transition
C33_RaiseDecidedAfterCallback ==
    (result = "ok" /\ lastOp.name \in {"start", "processEvent", "processTimeOut",
                                       "processInnerEvent"}
       /\ (lastOp.name = "processEvent" => allowedMat[lastOp.a][lastOp.b]))
    => (Count(calls, Call("raiseSignal", current, 0)) = 1) = DoRaiseSig(stateInfo[current])

\* C34: every transition performed by processInnerEvent adds one to the
\* counter of the synthetic event NumEvents + 1 and to no other event counter
C34_InnerLoggedAsSynthetic ==
    [][(lastOp'.name = "processInnerEvent" /\ result' = "ok")
         => eventCounter' = [eventCounter EXCEPT ![EvAAT] = @ + 1]]_vars

\* C35: activateInnerEvent(ev) sets the active flag of every inner
\* transition on ev, on every state, and of no other; it changes neither
\* current nor the timer nor any counter nor the matrices and runs no
\* callback; when no state carries an inner transition on ev it ends in a
\* runtime error and no flag changes
C35_ActivateFrame ==
    [][lastOp'.name = "activateInnerEvent"
         => LET ev == lastOp'.a
                found == \E s \in States : \E i \in 1 .. Len(stateInfo[s].innerTransList) :
                            stateInfo[s].innerTransList[i].innerEvent = ev
            IN /\ \A s \in States :
                    /\ Len(stateInfo'[s].innerTransList) = Len(stateInfo[s].innerTransList)
                    /\ \A i \in 1 .. Len(stateInfo[s].innerTransList) :
                          stateInfo'[s].innerTransList[i] =
                             IF stateInfo[s].innerTransList[i].innerEvent = ev
                             THEN [stateInfo[s].innerTransList[i] EXCEPT !.isActive = TRUE]
                             ELSE stateInfo[s].innerTransList[i]
                    /\ Wiring(stateInfo'[s]) = Wiring(stateInfo[s])
               /\ UNCHANGED <<transitionMat, allowedMat, ignEventCallback, current,
                              isRunning, stateCounter, eventCounter, ignoredEvents,
                              asioTimer, readyTimeouts, signals, loopStopped, terminated>>
               /\ calls' = <<>>
               /\ result' = IF found THEN "ok" ELSE "rt_error"
               /\ ~found => stateInfo' = stateInfo]_vars

\* a running machine on which an activation left the inner transition on the
\* other event of the same state inactive
C35_Witness ==
    /\ isRunning /\ result = "ok"
    /\ lastOp.name = "activateInnerEvent"
    /\ \E s \in States : \E i, j \in 1 .. Len(stateInfo[s].innerTransList) :
          /\ stateInfo[s].innerTransList[i].innerEvent = lastOp.a
          /\ stateInfo[s].innerTransList[i].isActive
          /\ stateInfo[s].innerTransList[j].innerEvent # lastOp.a
          /\ ~stateInfo[s].innerTransList[j].isActive

\* C36: assignInnerTransition(from, event, to) on a state that is not a
\* pass-state appends (event, to), inactive, at the end of the inner
\* transitions of from, sets next[event][from] = to and
\* allowed[event][from] = true and changes nothing else; on a pass-state it
\* ends in a configuration error and changes nothing
C36_AssignInnerFrame ==
    [][lastOp'.name = "assignInnerTransition"
         => LET from == lastOp'.a
                event == lastOp'.b
                to == lastOp'.c
            IN /\ UNCHANGED <<ignEventCallback, current, isRunning, stateCounter,
                              eventCounter, ignoredEvents, asioTimer, readyTimeouts,
                              signals, loopStopped, terminated>>
               /\ IF stateInfo[from].isPassState
                  THEN /\ result' = "cfg_error"
                       /\ UNCHANGED <<transitionMat, allowedMat, stateInfo>>
                  ELSE /\ result' = "ok"
                       /\ stateInfo' = [stateInfo EXCEPT ![from].innerTransList =
                             @ \o <<[innerEvent |-> event, destState |-> to,
                                     isActive |-> FALSE]>>]
                       /\ transitionMat' = [transitionMat EXCEPT ![event][from] = to]
                       /\ allowedMat' = [allowedMat EXCEPT ![event][from] = TRUE]]_vars

\* a second inner transition was appended to a state and the matrices follow
C36_Witness ==
    /\ lastOp.name = "assignInnerTransition" /\ result = "ok"
    /\ Len(stateInfo[lastOp.a].innerTransList) = 2
    /\ stateInfo[lastOp.a].innerTransList[2].destState = lastOp.c
    /\ stateInfo[lastOp.a].innerTransList[1].destState # lastOp.c
    /\ transitionMat[lastOp.b][lastOp.a] = lastOp.c
    /\ allowedMat[lastOp.b][lastOp.a]

\* C37: each successful start() adds exactly one to the entry counter of
\* state 0 and changes no other counter
C37_StartCountsOneEntry ==
    [][(lastOp'.name = "start" /\ result' = "ok")
         => /\ stateCounter' = [stateCounter EXCEPT ![0] = @ + 1]
            /\ UNCHANGED <<eventCounter, ignoredEvents>>]_vars

\* C38: allowEvent(s, e, b) writes allowed[e][s] = b and allowAllEvents
\* sets every entry of the allow-mask, and neither changes the next-state
\* matrix, the state info or anything else; on a machine where no transition
\* was ever assigned, an allowed event moves the running machine to state 0
C38_AllowMaskOnly ==
    [][/\ lastOp'.name = "allowEvent"
          => /\ allowedMat' = [allowedMat EXCEPT ![lastOp'.b][lastOp'.a] = (lastOp'.c = 1)]
             /\ UNCHANGED <<transitionMat, stateInfo, ignEventCallback, current,
                            isRunning, stateCounter, eventCounter, ignoredEvents,
                            asioTimer, readyTimeouts, signals, loopStopped, terminated>>
       /\ lastOp'.name = "allowAllEvents"
          => /\ \A e \in DOMAIN allowedMat : \A s \in DOMAIN stateInfo : allowedMat'[e][s]
             /\ DOMAIN allowedMat' = DOMAIN allowedMat
             /\ UNCHANGED <<transitionMat, stateInfo, ignEventCallback, current,
                            isRunning, stateCounter, eventCounter, ignoredEvents,
                            asioTimer, readyTimeouts, signals, loopStopped, terminated>>
       /\ (lastOp'.name = "processEvent" /\ isRunning /\ allowedMat[lastOp'.a][current])
          => /\ result' = "ok"
             /\ current' = 0
             /\ eventCounter' = [eventCounter EXCEPT ![lastOp'.a] = @ + 1]]_vars

\* an event that was only allowed took the running machine from another
\* state back to state 0
C38_Witness ==
    /\ isRunning /\ result = "ok"
    /\ lastOp.name = "processEvent" /\ lastOp.b # 0
    /\ allowedMat[lastOp.a][lastOp.b]
    /\ current = 0
    /\ eventCounter[lastOp.a] = 1
    /\ \A e \in Events, s \in States : transitionMat[e][s] = 0

\* C39: processInnerEvent is dispatched only while the current state is a
\* pass-state or carries an active inner transition: it follows the
\* pass-state transition or the first active inner transition of that state,
\* and logs the synthetic event NumEvents + 1 for a pass-state only
C39_InnerDispatchOnRaisingState ==
    [][lastOp'.name = "processInnerEvent"
         => /\ DoRaiseSig(stateInfo[current])
            /\ current' = InnerNext(stateInfo[current], current).cur
            /\ Count(calls', Call("log", current', EvAAT)) = 0
               \/ stateInfo[current].isPassState]_vars

====
